---- MODULE Spec2Model ----
(***************************************************************************)
(* Model of the sales-coach worker: the SalesAgent durable object           *)
(* (salesAgentDO.ts), the FinalizeCallWorkflow (workflows.ts) and the       *)
(* front door (index.ts).                                                   *)
(*                                                                         *)
(* Texts are sequences of tokens.  A token is a record [k, v]: k names a    *)
(* piece of syntax ("{", "}", "<json>", "</json>", " ", "txt", "null",      *)
(* "num") or, for a JSON member, its key, and v is the member's value.      *)
(* JavaScript values are records [t, v]: t is the type ("undef", "null",    *)
(* "str", "arr", "num") and v the content as a sequence of strings (the     *)
(* entries of an array, the pieces of a string).                            *)
(***************************************************************************)
EXTENDS Integers, Sequences, FiniteSets, TLC

(* ---------------------------- bounds ---------------------------------- *)

\* userTurnCount a chat call may reach under OutputSpec, PairSpec and FinalizeSpec
MaxOutputTurns == 2
\* userTurnCount a chat call may reach under Spec
MaxTurns == 3
\* userTurnCount a chat call may reach under LongSpec
MaxLongTurns == 6
\* most bullets the summary model output carries
MaxBullets == 7

Sessions == {"A", "B"}
\* the request slots: as many chat requests may be in flight at once
Slots == {1, 2}
UserMessages == {"m1"}

(* ------------------------- JavaScript values --------------------------- *)

Undefined == [t |-> "undef", v |-> <<>>]
Null == [t |-> "null", v |-> <<>>]
Str(pieces) == [t |-> "str", v |-> pieces]
Arr(entries) == [t |-> "arr", v |-> entries]
Num == [t |-> "num", v |-> <<"5">>]

\* x ?? y
Nullish(x) == x.t \in {"undef", "null"}
Coalesce(x, y) == IF Nullish(x) THEN y ELSE x

\* Array.isArray(x)
IsArray(x) == x.t = "arr"

\* x?.length: strings and arrays have one, anything else gives undefined (-1)
LengthOf(x) == IF x.t \in {"str", "arr"} THEN Len(x.v) ELSE -1

(* ------------------------------ texts ---------------------------------- *)

Tok(k) == [k |-> k, v |-> Undefined]
Member(k, val) == [k |-> k, v |-> val]

LB == Tok("{")
RB == Tok("}")
OpenTag == Tok("<json>")
CloseTag == Tok("</json>")
WS == Tok(" ")
Txt == Tok("txt")

Syntax == {"{", "}", "<json>", "</json>", " ", "txt", "null", "num"}

\* the content of a text as a string value: the pieces are the tokens' names
Render(text) == Str([i \in DOMAIN text |-> text[i].k])

\* an optional text (string | null)
NoText == [isNull |-> TRUE, text |-> <<>>]
Some(text) == [isNull |-> FALSE, text |-> text]

\* text.indexOf(tok), text.lastIndexOf(tok): 0 when absent (the code's -1)
IndexOf(text, k) ==
    IF \E i \in DOMAIN text : text[i].k = k
    THEN CHOOSE i \in DOMAIN text :
            text[i].k = k /\ \A j \in 1..(i - 1) : text[j].k # k
    ELSE 0

LastIndexOf(text, k) ==
    IF \E i \in DOMAIN text : text[i].k = k
    THEN CHOOSE i \in DOMAIN text :
            text[i].k = k /\ \A j \in (i + 1)..Len(text) : text[j].k # k
    ELSE 0

\* text.trim()
RECURSIVE TrimLeft(_)
TrimLeft(text) ==
    IF text # <<>> /\ Head(text).k = " " THEN TrimLeft(Tail(text)) ELSE text

RECURSIVE TrimRight(_)
TrimRight(text) ==
    IF text # <<>> /\ text[Len(text)].k = " "
    THEN TrimRight(SubSeq(text, 1, Len(text) - 1))
    ELSE text

Trim(text) == TrimRight(TrimLeft(text))

StartsWithBrace(text) == text # <<>> /\ Head(text).k = "{"

\* arr.slice(Math.max(0, arr.length - n))
lastN(arr, n) ==
    SubSeq(arr, (IF Len(arr) - n > 0 THEN Len(arr) - n ELSE 0) + 1, Len(arr))

\* the slice left out
SliceNone(arr, n) == arr

\* arr.slice(0, n)
SliceFirst(arr, n) == SubSeq(arr, 1, IF Len(arr) < n THEN Len(arr) ELSE n)

\* extractBetween(text, "<json>", "</json>")
extractBetween(text) ==
    LET startIndex == IndexOf(text, "<json>")
        endIndex == LastIndexOf(text, "</json>")
    IN  IF startIndex = 0 \/ endIndex = 0 \/ endIndex <= startIndex
        THEN NoText
        ELSE Some(Trim(SubSeq(text, startIndex + 1, endIndex - 1)))

\* extractJsonObject(text), the same helper in both files
extractJsonObject(text) ==
    LET start == IndexOf(text, "{")
        end == LastIndexOf(text, "}")
    IN  IF start = 0 \/ end = 0 \/ end <= start
        THEN NoText
        ELSE Some(SubSeq(text, start, end))

(* --------------------------- JSON.parse -------------------------------- *)

\* JSON.parse(text): [threw, t, m].  A text parses when, whitespace aside, it
\* is an object "{" member ... "}", the literal null or a number.
NoWS(text) == SelectSeq(text, LAMBDA tok : tok.k # " ")

IsObjectText(text) ==
    /\ Len(text) >= 2
    /\ text[1].k = "{"
    /\ text[Len(text)].k = "}"
    /\ \A i \in 2..(Len(text) - 1) : text[i].k \notin Syntax

JSONParse(text) ==
    LET body == NoWS(text)
    IN  IF IsObjectText(body)
        THEN [threw |-> FALSE, t |-> "obj", m |-> SubSeq(body, 2, Len(body) - 1)]
        ELSE IF Len(body) = 1 /\ body[1].k = "null"
        THEN [threw |-> FALSE, t |-> "null", m |-> <<>>]
        ELSE IF Len(body) = 1 /\ body[1].k = "num"
        THEN [threw |-> FALSE, t |-> "num", m |-> <<>>]
        ELSE [threw |-> TRUE, t |-> "null", m |-> <<>>]

\* safeJsonParse(text): the parsed value, null when JSON.parse throws
safeJsonParse(text) ==
    LET r == JSONParse(text)
    IN  IF r.threw THEN [t |-> "null", m |-> <<>>] ELSE [t |-> r.t, m |-> r.m]

\* parsed.key: the last member of that name wins; undefined when there is none
Get(parsed, key) ==
    IF parsed.t = "obj" /\ \E i \in DOMAIN parsed.m : parsed.m[i].k = key
    THEN parsed.m[LastIndexOf(parsed.m, key)].v
    ELSE Undefined

\* the object literal { reply: rawText, followUps: [] }
ReplyOnly(rawText) ==
    [t |-> "obj", m |-> <<Member("reply", Render(rawText)), Member("followUps", Arr(<<>>))>>]

(* ------------------------ model invocations ---------------------------- *)

\* normalizeAIText(output), the same helper in both files.  An output is
\* [shape, text]: null, a string, { response }, { output_text },
\* { result: { response } }, or an object with none of these (stringified).
normalizeAIText(output) ==
    CASE output.shape = "null" -> <<>>
      [] output.shape = "string" -> output.text
      [] output.shape = "response" -> output.text
      [] output.shape = "output_text" -> output.text
      [] output.shape = "result" -> output.text
      [] OTHER -> <<LB, Member("other", Num), RB>>

\* the chat model's output on a turn: the text the reply is read from
ReplyTexts ==
    { <<OpenTag, LB, Member("reply", Str(<<"r1">>)),
        Member("followUps", Arr(<<"q1", "q2">>)), RB, CloseTag>>,
      <<Txt, LB, Member("reply", Str(<<"r1">>)),
        Member("followUps", Arr(<<"q1", "q2", "q3">>)), RB>>,
      <<LB, Member("reply", Str(<<"r1">>)), RB>>,
      <<LB, Member("followUps", Str(<<"a", "b">>)), RB>>,
      <<LB, Member("reply", Str(<<>>)), Member("followUps", Arr(<<>>)), RB>>,
      <<OpenTag, CloseTag, LB, Member("reply", Str(<<"r1">>)), RB>>,
      <<WS, LB, Txt>>,
      <<Txt>>,
      <<>> }

ReplyOutputs ==
    {[shape |-> "response", text |-> t] : t \in ReplyTexts}
        \cup {[shape |-> "null", text |-> <<>>],
              [shape |-> "string", text |-> <<Txt>>],
              [shape |-> "output_text", text |-> <<LB, Member("reply", Null), RB>>],
              [shape |-> "result", text |-> <<Tok("null")>>],
              [shape |-> "object", text |-> <<>>]}

\* the outputs the chat model gives under Spec
FewReplyOutputs ==
    {[shape |-> "response",
      text |-> <<OpenTag, LB, Member("reply", Str(<<"r1">>)),
                 Member("followUps", Arr(<<"q1", "q2">>)), RB, CloseTag>>]}

\* the extraction model's output
MemTexts ==
    { <<OpenTag, LB, Member("customerName", Str(<<"Ann">>)),
        Member("company", Str(<<"Acme">>)), Member("industry", Str(<<"retail">>)),
        Member("painPoints", Arr(<<"p1">>)), Member("budget", Str(<<"10k">>)),
        Member("timeline", Str(<<"Q3">>)), Member("objections", Arr(<<"o1">>)),
        Member("nextSteps", Arr(<<"n1">>)),
        Member("rollingSummary", Str(<<"sum1">>)), RB, CloseTag>>,
      <<LB, Member("customerName", Str(<<>>)), Member("painPoints", Arr(<<>>)), RB>>,
      <<LB, Member("company", Null), Member("objections", Str(<<"o2">>)),
        Member("nextSteps", Null), RB>>,
      <<LB, RB>>,
      <<Tok("num")>>,
      <<Txt>> }

MemOutputs == {[shape |-> "response", text |-> t] : t \in MemTexts}

(* ----------------------------- the state -------------------------------- *)

DEFAULT_DEAL_MEMORY ==
    [customerName |-> Str(<<>>), company |-> Str(<<>>), industry |-> Str(<<>>),
     painPoints |-> Arr(<<>>), budget |-> Str(<<>>), timeline |-> Str(<<>>),
     objections |-> Arr(<<>>), nextSteps |-> Arr(<<>>)]

\* DEFAULT_STATE without its messages array, which is the variable
\* defaultMessages: { ...DEFAULT_STATE } copies the reference, not the array
DEFAULT_STATE ==
    [messages |-> <<>>, dealMemory |-> DEFAULT_DEAL_MEMORY,
     rollingSummary |-> Str(<<>>), userTurnCount |-> 0, final |-> <<>>]

GenericReply == Str(<<"generic">>)
DefaultFollowUps == Arr(<<"d1", "d2">>)
ApologyReply == Str(<<"apology">>)

UserMsg(message) == [role |-> "user", content |-> Str(<<message>>)]
AssistantMsg(reply) == [role |-> "assistant", content |-> reply]

\* the value null, as safeJsonParse gives it
NoParse == [t |-> "null", m |-> <<>>]

NoResponse ==
    [kind |-> "none", status |-> 0, reply |-> Undefined, followUps |-> Undefined,
     dealMemory |-> DEFAULT_DEAL_MEMORY, rollingSummary |-> Undefined,
     userTurnCount |-> 0]

IdleCall ==
    [pc |-> "idle", sid |-> "A", shared |-> FALSE, s |-> DEFAULT_STATE,
     stored |-> <<>>, before |-> DEFAULT_STATE, reply |-> Undefined,
     followUps |-> Undefined,
     extracted |-> FALSE, memParsed |-> NoParse, resp |-> NoResponse]

IdleWorkflow ==
    [pc |-> "idle", sid |-> "A", convo |-> 0, summaryBullets |-> <<>>,
     actionItems |-> <<>>, final |-> <<>>]

\* a request of the front door: [path, method, sessionId, message]
NoRequest ==
    [req |-> [path |-> "", method |-> "", sessionId |-> Undefined, message |-> Undefined],
     status |-> 0]

VARIABLES
    storage,          \* per session, the durable object's key/value storage
    defaultMessages,  \* the array DEFAULT_STATE.messages of the module
    calls,            \* per request slot, the chat request being handled
    wf,               \* the finalization workflow instance
    chatCalls,        \* per session, chat calls made since creation or reset
    lastOp,           \* per session, the last operation issued for it
    http              \* the last request the front door answered, and its status

vars == <<storage, defaultMessages, calls, wf, chatCalls, lastOp, http>>

Init ==
    /\ storage = [sid \in Sessions |-> <<>>]
    /\ defaultMessages = <<>>
    /\ calls = [c \in Slots |-> IdleCall]
    /\ wf = IdleWorkflow
    /\ chatCalls = [sid \in Sessions |-> 0]
    /\ lastOp = [sid \in Sessions |-> "none"]
    /\ http = NoRequest

(* --------------------------- SalesAgent -------------------------------- *)

HasState(sid) == "state" \in DOMAIN storage[sid]

\* load(): [shared, s].  With nothing stored, s.messages is the module's own
\* array (shared): s.messages is kept empty here and read from defaultMessages.
load(sid) ==
    IF ~HasState(sid)
    THEN [shared |-> TRUE, s |-> DEFAULT_STATE]
    ELSE LET stored == storage[sid]["state"]
         IN  [shared |-> FALSE,
              s |-> [messages |-> stored.messages,
                     dealMemory |-> stored.dealMemory,
                     rollingSummary |-> Coalesce(stored.rollingSummary, DEFAULT_STATE.rollingSummary),
                     userTurnCount |-> stored.userTurnCount,
                     final |-> stored.final]]

\* the messages array a loaded state refers to
MessagesOf(l) == IF l.shared THEN defaultMessages ELSE l.s.messages

\* the value a loaded state serializes to (storage.put, Response.json)
Serialized(l) == [l.s EXCEPT !.messages = MessagesOf(l)]

\* GET /internal/state
GetState(sid) == Serialized(load(sid))

\* save(s)
SaveStep(sid, value) ==
    storage' = [storage EXCEPT ![sid] = [k \in {"state"} |-> value]]

InFlight(c) == calls[c].pc \in {"reply", "mem"}

\* the state request c loaded: what storage held then, or the defaults
LoadedState(c) ==
    IF "state" \in DOMAIN calls[c].stored
    THEN calls[c].stored["state"]
    ELSE DEFAULT_STATE

\* the userTurnCount a read of a session's storage gives
ReadCount(st) ==
    IF "state" \in DOMAIN st THEN st["state"].userTurnCount
    ELSE DEFAULT_STATE.userTurnCount

(* ------------------------- POST /internal/chat ------------------------- *)

\* s.messages.push(msg) on the state of request c: the module's array when
\* the state was loaded from DEFAULT_STATE, the request's own copy otherwise
PushDefault(c, msg) ==
    IF calls[c].shared THEN Append(defaultMessages, msg) ELSE defaultMessages

\* the increment left out
IncrementedNot(count) == count

\* s.userTurnCount += 1
Incremented(count) == count + 1

\* step 5: the parsed reply object of a model output
ParseReply(rawText) ==
    LET tagged == extractBetween(rawText)
        jsonStr == IF tagged.isNull THEN extractJsonObject(rawText) ELSE tagged
        parsed == safeJsonParse(IF jsonStr.isNull THEN <<>> ELSE jsonStr.text)
    IN  IF parsed.t = "null" /\ ~StartsWithBrace(Trim(rawText))
        THEN ReplyOnly(rawText)
        ELSE parsed

ReplyOf(parsed) == Coalesce(Get(parsed, "reply"), GenericReply)

\* the length check left out: any array is passed through
FollowUpsUnchecked(parsed) ==
    IF IsArray(Get(parsed, "followUps"))
    THEN Get(parsed, "followUps")
    ELSE DefaultFollowUps

FollowUpsOf(parsed) ==
    IF LengthOf(Get(parsed, "followUps")) = 2
    THEN Get(parsed, "followUps")
    ELSE DefaultFollowUps

\* extraction on every second turn
ExtractionEverySecond(count) == count > 0 /\ count % 2 = 0

\* step 6: is this a turn on which memory is extracted
ExtractionDue(count) == count > 0 /\ count % 3 = 0

\* the parsed extraction object of a model output
ParseMemory(memRaw) ==
    LET tagged == extractBetween(memRaw)
        memJson == IF tagged.isNull THEN extractJsonObject(memRaw) ELSE tagged
    IN  safeJsonParse(IF memJson.isNull THEN <<>> ELSE memJson.text)

MergeString(memParsed, key, prior) == Coalesce(Get(memParsed, key), prior)

\* the type gate left out: whatever is not an array empties the list
MergeListUngated(memParsed, key, prior) ==
    IF IsArray(Get(memParsed, key)) THEN Get(memParsed, key) ELSE Arr(<<>>)

MergeList(memParsed, key, prior) ==
    IF IsArray(Get(memParsed, key)) THEN Get(memParsed, key) ELSE prior

\* s.dealMemory after the merge of memParsed
MergeDealMemory(dm, memParsed) ==
    IF memParsed.t = "null"
    THEN dm
    ELSE [customerName |-> MergeString(memParsed, "customerName", dm.customerName),
          company |-> MergeString(memParsed, "company", dm.company),
          industry |-> MergeString(memParsed, "industry", dm.industry),
          painPoints |-> MergeList(memParsed, "painPoints", dm.painPoints),
          budget |-> MergeString(memParsed, "budget", dm.budget),
          timeline |-> MergeString(memParsed, "timeline", dm.timeline),
          objections |-> MergeList(memParsed, "objections", dm.objections),
          nextSteps |-> MergeList(memParsed, "nextSteps", dm.nextSteps)]

\* s.rollingSummary after the merge of memParsed
MergeRollingSummary(summary, memParsed) ==
    IF memParsed.t = "null"
    THEN summary
    ELSE Coalesce(Get(memParsed, "rollingSummary"), summary)

\* the request body is read, the state loaded, the user message pushed and the
\* counter incremented; the handler then awaits the reply model
InternalChat(c, sid, message, limit) ==
    LET l == load(sid)
    IN  /\ calls[c].pc = "idle"
        /\ \A d \in 1..(c - 1) : calls[d].pc # "idle"
        /\ chatCalls[sid] < limit
        /\ Incremented(l.s.userTurnCount) <= limit
        /\ Len(MessagesOf(l)) + 2 <= 2 * limit
        /\ calls' = [calls EXCEPT ![c] =
              [pc |-> "reply", sid |-> sid, shared |-> l.shared,
               s |-> [l.s EXCEPT
                        !.messages = IF l.shared THEN <<>>
                                     ELSE Append(l.s.messages, UserMsg(message)),
                        !.userTurnCount = Incremented(l.s.userTurnCount)],
               stored |-> storage[sid], before |-> GetState(sid),
               reply |-> Undefined,
               followUps |-> Undefined, extracted |-> FALSE,
               memParsed |-> NoParse, resp |-> NoResponse]]
        /\ defaultMessages' =
              IF l.shared THEN Append(defaultMessages, UserMsg(message))
              ELSE defaultMessages
        /\ chatCalls' = [chatCalls EXCEPT ![sid] = @ + 1]
        /\ lastOp' = [lastOp EXCEPT ![sid] = "other"]
        /\ UNCHANGED <<storage, wf>>

\* POST /internal/chat, as the stub delivers it
ChatStart(c, sid, message, limit) ==
    /\ InternalChat(c, sid, message, limit)
    /\ UNCHANGED http

\* step 7: the assistant message is pushed, the state saved, the response built
Finish(c, s, reply, followUps, extracted, memParsed) ==
    LET msg == AssistantMsg(reply)
        own == IF calls[c].shared THEN s.messages ELSE Append(s.messages, msg)
        saved == [s EXCEPT !.messages =
                    IF calls[c].shared THEN Append(defaultMessages, msg) ELSE own]
    IN  /\ defaultMessages' = PushDefault(c, msg)
        /\ SaveStep(calls[c].sid, saved)
        /\ calls' = [calls EXCEPT ![c] =
              [@ EXCEPT !.pc = "done", !.s = [s EXCEPT !.messages = own],
                        !.reply = reply, !.followUps = followUps,
                        !.extracted = extracted, !.memParsed = memParsed,
                        !.resp = [kind |-> "ok", status |-> 200, reply |-> reply,
                                  followUps |-> followUps,
                                  dealMemory |-> s.dealMemory,
                                  rollingSummary |-> s.rollingSummary,
                                  userTurnCount |-> s.userTurnCount]]]

\* the reply model returns: steps 5 and 6, then either the extraction model is
\* awaited or the turn is finished
ChatReply(c, output) ==
    LET parsed == ParseReply(normalizeAIText(output))
        reply == ReplyOf(parsed)
        followUps == FollowUpsOf(parsed)
    IN  /\ calls[c].pc = "reply"
        /\ IF ExtractionDue(calls[c].s.userTurnCount)
           THEN /\ calls' = [calls EXCEPT ![c] =
                      [@ EXCEPT !.pc = "mem", !.reply = reply, !.followUps = followUps]]
                /\ UNCHANGED <<storage, defaultMessages>>
           ELSE Finish(c, calls[c].s, reply, followUps, FALSE, NoParse)
        /\ UNCHANGED <<wf, chatCalls, lastOp, http>>

\* the extraction model returns: the merge, then the turn is finished
ChatMemory(c, output) ==
    LET memParsed == ParseMemory(normalizeAIText(output))
        s == [calls[c].s EXCEPT
                !.dealMemory = MergeDealMemory(@, memParsed),
                !.rollingSummary = MergeRollingSummary(@, memParsed)]
    IN  /\ calls[c].pc = "mem"
        /\ Finish(c, s, calls[c].reply, calls[c].followUps, TRUE, memParsed)
        /\ UNCHANGED <<wf, chatCalls, lastOp, http>>

\* the fallback answering with the default deal memory, without the load
FallbackResponseDefaults(sid) ==
    [kind |-> "fallback", status |-> 200, reply |-> ApologyReply,
     followUps |-> Arr(<<>>), dealMemory |-> DEFAULT_DEAL_MEMORY,
     rollingSummary |-> Str(<<>>), userTurnCount |-> 0]

\* the response of the catch block: Response.json, status 200
FallbackResponse(sid) ==
    [kind |-> "fallback", status |-> 200, reply |-> ApologyReply,
     followUps |-> Arr(<<>>), dealMemory |-> load(sid).s.dealMemory,
     rollingSummary |-> Str(<<>>), userTurnCount |-> 0]

\* a model invocation throws: the catch block answers from a fresh load
ChatFail(c) ==
    /\ InFlight(c)
    /\ calls' = [calls EXCEPT ![c] =
          [@ EXCEPT !.pc = "done", !.resp = FallbackResponse(calls[c].sid)]]
    /\ UNCHANGED <<storage, defaultMessages, wf, chatCalls, lastOp, http>>

\* the front door hands the response to the caller
ChatReturn(c) ==
    /\ calls[c].pc = "done"
    /\ calls' = [calls EXCEPT ![c] = IdleCall]
    /\ UNCHANGED <<storage, defaultMessages, wf, chatCalls, lastOp, http>>

(* ----------------- POST /internal/reset, save-final -------------------- *)

\* storage.deleteAll()
InternalReset(sid) ==
    /\ storage' = [storage EXCEPT ![sid] = <<>>]
    /\ chatCalls' = [chatCalls EXCEPT ![sid] = 0]
    /\ lastOp' = [lastOp EXCEPT ![sid] = "reset"]
    /\ UNCHANGED <<defaultMessages, calls, wf>>

\* POST /internal/reset, as the stub delivers it
Reset(sid) ==
    /\ InternalReset(sid)
    /\ UNCHANGED http

\* a state of the defaults with the final: everything else is dropped
WithFinalOnly(s, final) == [DEFAULT_STATE EXCEPT !.final = <<final>>]

\* s.final = final
WithFinal(s, final) == [s EXCEPT !.final = <<final>>]

\* s = load(); s.final = final; save(s)
SaveFinal(sid, final) ==
    /\ SaveStep(sid, WithFinal(GetState(sid), final))
    /\ lastOp' = [lastOp EXCEPT ![sid] = "final"]
    /\ UNCHANGED <<defaultMessages, calls, chatCalls, http>>

(* ----------------------- FinalizeCallWorkflow -------------------------- *)

Bullets(n) == [i \in 1..n |-> ToString(i)]

SummaryOutputs ==
    {[shape |-> "response",
      text |-> <<Txt, LB, Member("summaryBullets", Arr(Bullets(n))), RB>>] :
        n \in {2, MaxBullets}}
        \cup {[shape |-> "response", text |-> <<LB, Member("summaryBullets", Str(<<"b">>)), RB>>],
              [shape |-> "response", text |-> <<Tok("null")>>],
              [shape |-> "string", text |-> <<Txt>>]}

ActionOutputs ==
    {[shape |-> "response",
      text |-> <<LB, Member("actionItems", Arr(<<"Rep:call">>)), RB>>],
     [shape |-> "response",
      text |-> <<LB, Member("actionItems", Arr(<<"null">>)), RB>>],
     [shape |-> "response", text |-> <<Txt>>]}

EmailOutputs ==
    {[shape |-> "response", text |-> <<WS, Txt, WS>>],
     [shape |-> "null", text |-> <<>>]}

\* the try block of steps 1 and 2: the array under key, [] when the text does
\* not parse, when it parses to null (the property read throws) or when the
\* member is not an array
ParseArray(raw, key) ==
    LET found == extractJsonObject(raw)
        r == JSONParse(IF found.isNull THEN raw ELSE found.text)
    IN  IF r.threw \/ r.t = "null" THEN <<>>
        ELSE IF IsArray(Get(r, key)) THEN Get(r, key).v
        ELSE <<>>

\* the final object of a run
FinalOf(summaryBullets, actionItems, followupEmail) ==
    [summaryBullets |-> SliceFirst(summaryBullets, 6),
     actionItems |-> actionItems,
     followupEmail |-> followupEmail]

\* env.FINALIZE_CALL.create: a workflow instance is created
CreateInstance(sid) ==
    /\ wf.pc = "idle"
    /\ wf' = [IdleWorkflow EXCEPT !.pc = "read", !.sid = sid]
    /\ lastOp' = [lastOp EXCEPT ![sid] = "other"]
    /\ UNCHANGED <<storage, defaultMessages, calls, chatCalls>>

\* POST /api/end-call with a session identifier
EndCall(sid) ==
    /\ CreateInstance(sid)
    /\ UNCHANGED http

\* the transcript built from the last 10 messages only
ConvoRecent(messages) == lastN(messages, 10)

\* convo: one line for each message of the state read
Convo(messages) == messages

\* the run fetches /internal/state, builds the summary prompt from every
\* message of the state (convo: how many) and awaits the summary model
WfRead ==
    /\ wf.pc = "read"
    /\ wf' = [wf EXCEPT !.pc = "summary",
                        !.convo = Len(Convo(GetState(wf.sid).messages))]
    /\ UNCHANGED <<storage, defaultMessages, calls, chatCalls, lastOp, http>>

WfSummary(output) ==
    /\ wf.pc = "summary"
    /\ wf' = [wf EXCEPT !.pc = "action",
                        !.summaryBullets = ParseArray(normalizeAIText(output), "summaryBullets")]
    /\ UNCHANGED <<storage, defaultMessages, calls, chatCalls, lastOp, http>>

\* the action items are parsed and the email prompt is built from them: reading
\* a.owner of a null entry throws and ends the run
WfAction(output) ==
    LET actionItems == ParseArray(normalizeAIText(output), "actionItems")
    IN  /\ wf.pc = "action"
        /\ wf' = IF \E i \in DOMAIN actionItems : actionItems[i] = "null"
                 THEN IdleWorkflow
                 ELSE [wf EXCEPT !.pc = "email", !.actionItems = actionItems]
        /\ UNCHANGED <<storage, defaultMessages, calls, chatCalls, lastOp, http>>

WfEmail(output) ==
    /\ wf.pc = "email"
    /\ wf' = [wf EXCEPT !.pc = "save",
                        !.final = <<FinalOf(wf.summaryBullets, wf.actionItems,
                                            Render(Trim(normalizeAIText(output))))>>]
    /\ UNCHANGED <<storage, defaultMessages, calls, chatCalls, lastOp, http>>

\* the run posts /internal/save-final and returns; the count of messages it
\* had read stays on record until the next instance is created
WfSave ==
    /\ wf.pc = "save"
    /\ SaveFinal(wf.sid, wf.final[1])
    /\ wf' = [IdleWorkflow EXCEPT !.convo = wf.convo]

\* a model invocation of the run throws: nothing catches it, the run ends
WfFail ==
    /\ wf.pc \in {"summary", "action", "email"}
    /\ wf' = IdleWorkflow
    /\ UNCHANGED <<storage, defaultMessages, calls, chatCalls, lastOp, http>>

(* ---------------------------- the front door --------------------------- *)

\* !x for a field of the request: undefined, null and "" are falsy
Falsy(x) == Nullish(x) \/ (x.t = "str" /\ x.v = <<>>)

Paths ==
    {"/api/chat", "/", "/api/results", "/api/debug", "/api/end-call",
     "/api/reset", "/api/other"}

Methods == {"GET", "POST"}

\* the sessionId and the message a request may carry: absent, empty, present
SessionIds == {Undefined, Str(<<"A">>)}
Messages == {Str(<<>>), Str(<<"m1">>)}

Requests ==
    [path : Paths, method : Methods, sessionId : SessionIds, message : Messages]

Route(req, path, method) == req.path = path /\ req.method = method

\* only the sessionId is looked at
ChatFieldsMissingSessionOnly(req) == Falsy(req.sessionId)

\* !sessionId || !message
ChatFieldsMissing(req) == Falsy(req.sessionId) \/ Falsy(req.message)

\* !sessionId
SessionMissing(req) == Falsy(req.sessionId)

\* the content of the message the stub is handed
MessageName(x) == IF x.t = "str" /\ x.v # <<>> THEN x.v[1] ELSE "none"

\* the front door's answer to a request: the status, and the handler the
\* request is passed to (every handler answers 200)
FrontDoor(req) ==
    IF Route(req, "/api/chat", "POST")
    THEN IF ChatFieldsMissing(req) THEN [status |-> 400, target |-> "none"]
         ELSE [status |-> 200, target |-> "chat"]
    ELSE IF Route(req, "/", "GET")
    THEN [status |-> 200, target |-> "none"]
    ELSE IF Route(req, "/api/results", "GET") \/ Route(req, "/api/debug", "GET")
    THEN IF SessionMissing(req) THEN [status |-> 400, target |-> "none"]
         ELSE [status |-> 200, target |-> "state"]
    ELSE IF Route(req, "/api/end-call", "POST")
    THEN IF SessionMissing(req) THEN [status |-> 400, target |-> "none"]
         ELSE [status |-> 200, target |-> "end-call"]
    ELSE IF Route(req, "/api/reset", "POST")
    THEN IF SessionMissing(req) THEN [status |-> 400, target |-> "none"]
         ELSE [status |-> 200, target |-> "reset"]
    ELSE [status |-> 404, target |-> "none"]

\* a public request: answered by the front door itself, or passed to the
\* session's durable object or to the workflow binding
Door(req) ==
    LET r == FrontDoor(req)
    IN  /\ http' = [req |-> req, status |-> r.status]
        /\ CASE r.target = "chat" ->
                    InternalChat(1, req.sessionId.v[1], MessageName(req.message),
                                 MaxOutputTurns)
              [] r.target = "reset" -> InternalReset(req.sessionId.v[1])
              [] r.target = "end-call" -> CreateInstance(req.sessionId.v[1])
              [] OTHER ->
                    UNCHANGED <<storage, defaultMessages, calls, wf, chatCalls, lastOp>>

(* --------------------------- specifications ---------------------------- *)

FewMemOutputs ==
    {[shape |-> "response", text |-> <<LB, Member("customerName", Str(<<"Ann">>)),
                                       Member("painPoints", Arr(<<"p1">>)),
                                       Member("rollingSummary", Str(<<"sum1">>)), RB>>],
     [shape |-> "response", text |-> <<Txt>>]}

\* one session and two request slots: a request may arrive while an earlier
\* one of the session awaits the model
Next ==
    \/ \E c \in Slots, message \in UserMessages : ChatStart(c, "A", message, MaxTurns)
    \/ \E c \in Slots, output \in FewReplyOutputs : ChatReply(c, output)
    \/ \E c \in Slots, output \in FewMemOutputs : ChatMemory(c, output)
    \/ \E c \in Slots : ChatFail(c)
    \/ \E c \in Slots : ChatReturn(c)
    \/ Reset("A")

Spec == Init /\ [][Next]_vars

\* two sessions in one isolate, one request slot
PairNext ==
    \/ \E sid \in Sessions, message \in UserMessages :
          ChatStart(1, sid, message, MaxOutputTurns)
    \/ \E output \in FewReplyOutputs : ChatReply(1, output)
    \/ ChatFail(1)
    \/ ChatReturn(1)
    \/ \E sid \in Sessions : Reset(sid)

PairSpec == Init /\ [][PairNext]_vars

\* one session and one request slot, over more turns and every output of the
\* extraction model
LongNext ==
    \/ \E message \in UserMessages : ChatStart(1, "A", message, MaxLongTurns)
    \/ \E output \in FewReplyOutputs : ChatReply(1, output)
    \/ \E output \in MemOutputs : ChatMemory(1, output)
    \/ ChatFail(1)
    \/ ChatReturn(1)
    \/ Reset("A")

LongSpec == Init /\ [][LongNext]_vars

\* one session and one request slot, over every output of the reply model
OutputNext ==
    \/ \E message \in UserMessages : ChatStart(1, "A", message, MaxOutputTurns)
    \/ \E output \in ReplyOutputs : ChatReply(1, output)
    \/ ChatFail(1)
    \/ ChatReturn(1)
    \/ Reset("A")

OutputSpec == Init /\ [][OutputNext]_vars

\* one session, one request slot and the finalization workflow, over every
\* output of the workflow's models
FinalizeNext ==
    \/ \E message \in UserMessages : ChatStart(1, "A", message, MaxOutputTurns)
    \/ \E output \in FewReplyOutputs : ChatReply(1, output)
    \/ ChatFail(1)
    \/ ChatReturn(1)
    \/ Reset("A")
    \/ EndCall("A")
    \/ WfRead
    \/ \E output \in SummaryOutputs : WfSummary(output)
    \/ \E output \in ActionOutputs : WfAction(output)
    \/ \E output \in EmailOutputs : WfEmail(output)
    \/ WfSave
    \/ WfFail

FinalizeSpec == Init /\ [][FinalizeNext]_vars

\* one session and one request slot behind the front door, over every request
DoorNext ==
    \/ \E req \in Requests : Door(req)
    \/ \E output \in FewReplyOutputs : ChatReply(1, output)
    \/ ChatFail(1)
    \/ ChatReturn(1)

DoorSpec == Init /\ [][DoorNext]_vars

\* one output for each model invocation
OneMemOutput == {[shape |-> "response", text |-> <<Txt>>]}
OneSummaryOutput ==
    {[shape |-> "response",
      text |-> <<LB, Member("summaryBullets", Arr(Bullets(2))), RB>>]}
OneActionOutput ==
    {[shape |-> "response",
      text |-> <<LB, Member("actionItems", Arr(<<"Rep:call">>)), RB>>]}
OneEmailOutput == {[shape |-> "response", text |-> <<Txt>>]}

\* one session over more turns, one request slot and the finalization workflow
TranscriptNext ==
    \/ \E message \in UserMessages : ChatStart(1, "A", message, MaxLongTurns)
    \/ \E output \in FewReplyOutputs : ChatReply(1, output)
    \/ \E output \in OneMemOutput : ChatMemory(1, output)
    \/ ChatFail(1)
    \/ ChatReturn(1)
    \/ EndCall("A")
    \/ WfRead
    \/ \E output \in OneSummaryOutput : WfSummary(output)
    \/ \E output \in OneActionOutput : WfAction(output)
    \/ \E output \in OneEmailOutput : WfEmail(output)
    \/ WfSave
    \/ WfFail

TranscriptSpec == Init /\ [][TranscriptNext]_vars

(* ------------------------------ claims --------------------------------- *)

SessionOf(c) == calls[c].sid

\* no request of the session is between its load and its save
Settled(sid) == \A c \in Slots : InFlight(c) => SessionOf(c) # sid

\* C1 as stated: once the chat calls made on a session since its creation or
\* last reset have all returned (N of them, failed ones included), the
\* session's userTurnCount is N.
C1_CountEqualsCalls ==
    \A sid \in Sessions :
        Settled(sid) => ReadCount(storage[sid]) = chatCalls[sid]

\* C1 as amended: a chat call that completes normally persists a
\* userTurnCount one greater than the count it loaded, a chat call in which a
\* model invocation fails leaves storage as it is, and a read after a reset
\* gives userTurnCount 0.
C1_CountStep ==
    [][ /\ \A c \in Slots :
              /\ (InFlight(c) /\ calls'[c].resp.kind = "ok")
                    => ReadCount(storage'[SessionOf(c)]) = LoadedState(c).userTurnCount + 1
              /\ (InFlight(c) /\ calls'[c].resp.kind = "fallback")
                    => storage' = storage
        /\ \A sid \in Sessions :
              (lastOp[sid] # "reset" /\ lastOp'[sid] = "reset")
                    => ReadCount(storage'[sid]) = 0 ]_vars

\* a second successful chat call has raised the persisted count from 1 to 2
C1_Witness ==
    \E c \in Slots :
        /\ calls[c].pc = "done"
        /\ calls[c].resp.kind = "ok"
        /\ LoadedState(c).userTurnCount = 1
        /\ ReadCount(storage[SessionOf(c)]) = 2

\* C2 as stated: the read-modify-write cycles of a session's calls do not
\* interleave: while a chat call is between its load and its save, the
\* session's storage is what the call loaded.
C2_NoInterleaving ==
    \A c \in Slots : InFlight(c) => storage[SessionOf(c)] = calls[c].stored

\* C3 as stated: a session for which no operation was ever issued reads as the
\* defaults, with an empty message history, whatever happened on other
\* sessions.
C3_Partitioned ==
    \A sid \in Sessions : lastOp[sid] = "none" => GetState(sid) = DEFAULT_STATE

\* C4 as stated: a results read that follows a reset of a session (no later
\* operation on it, none of its requests still in flight) returns the default
\* state.
C4_ResetGivesDefaults ==
    \A sid \in Sessions :
        (lastOp[sid] = "reset" /\ Settled(sid) /\ ~HasState(sid))
            => GetState(sid) = DEFAULT_STATE

\* C5 as stated: the followUps of every chat response, the fallback after a
\* failed model invocation included, has exactly 2 entries.
C5_AlwaysTwo ==
    \A c \in Slots :
        calls[c].pc = "done" => LengthOf(calls[c].resp.followUps) = 2

\* C5 as amended: when the model invocations of a chat call return, the
\* followUps of its response has length exactly 2 for every model output (the
\* model's own followUps when its length is 2, the two generic questions
\* otherwise); the fallback after a failed invocation has an empty list.
C5_TwoUnlessFallback ==
    \A c \in Slots :
        calls[c].pc = "done" =>
            /\ calls[c].resp.kind = "ok" => LengthOf(calls[c].resp.followUps) = 2
            /\ calls[c].resp.kind = "fallback" => calls[c].resp.followUps = Arr(<<>>)

\* the model answered plain text: the reply is the text, the followUps the two
\* generic questions
C5_Witness ==
    \E c \in Slots :
        /\ calls[c].pc = "done"
        /\ calls[c].resp.kind = "ok"
        /\ calls[c].resp.reply = Render(<<Txt>>)
        /\ calls[c].resp.followUps = DefaultFollowUps

IsPrefix(a, b) == Len(a) <= Len(b) /\ SubSeq(b, 1, Len(a)) = a

\* C6 as stated: while a session is not reset, each change of its persisted
\* state leaves userTurnCount no smaller and extends the message list.
C6_OnlyGrows ==
    [][ \A sid \in Sessions :
            (HasState(sid) /\ "state" \in DOMAIN storage'[sid]) =>
                /\ storage'[sid]["state"].userTurnCount >= storage[sid]["state"].userTurnCount
                /\ IsPrefix(storage[sid]["state"].messages, storage'[sid]["state"].messages)
      ]_vars

StringFields == {"customerName", "company", "industry", "budget", "timeline"}
ListFields == {"painPoints", "objections", "nextSteps"}

Populated(val) == val.v # <<>>

\* C7 as stated: while a session is not reset, a deal memory field that is
\* populated in the persisted state stays populated.
C7_NeverRegresses ==
    [][ \A sid \in Sessions :
            (HasState(sid) /\ "state" \in DOMAIN storage'[sid]) =>
                \A f \in StringFields \cup ListFields :
                    Populated(storage[sid]["state"].dealMemory[f])
                        => Populated(storage'[sid]["state"].dealMemory[f])
      ]_vars

\* C8: after a chat call's memory extraction, a string field the parsed
\* extraction does not have, a list field that is absent from it or not an
\* array, and a rollingSummary it does not have keep the value the call
\* loaded; with an empty object or no parse at all dealMemory and
\* rollingSummary are as loaded, and the call answers normally.
C8_AbsentRetained ==
    \A c \in Slots :
        (calls[c].pc = "done" /\ calls[c].extracted) =>
            LET p == calls[c].memParsed
                old == LoadedState(c)
                new == calls[c].s
            IN  /\ calls[c].resp.kind = "ok"
                /\ calls[c].resp.dealMemory = new.dealMemory
                /\ calls[c].resp.rollingSummary = new.rollingSummary
                /\ \A f \in StringFields :
                      Get(p, f) = Undefined => new.dealMemory[f] = old.dealMemory[f]
                /\ \A f \in ListFields :
                      Get(p, f).t # "arr" => new.dealMemory[f] = old.dealMemory[f]
                /\ Get(p, "rollingSummary") = Undefined
                      => new.rollingSummary = old.rollingSummary
                /\ (p.t # "obj" \/ p.m = <<>>) =>
                      /\ new.dealMemory = old.dealMemory
                      /\ new.rollingSummary = old.rollingSummary

\* an extraction that parsed to an object without painPoints or
\* rollingSummary kept the populated values the call had loaded
C8_Witness ==
    \E c \in Slots :
        /\ calls[c].pc = "done"
        /\ calls[c].extracted
        /\ calls[c].memParsed.t = "obj"
        /\ Get(calls[c].memParsed, "objections").t = "str"
        /\ LoadedState(c).dealMemory.objections = Arr(<<"o1">>)
        /\ calls[c].s.dealMemory.objections = Arr(<<"o1">>)
        /\ calls[c].s.rollingSummary = Str(<<"sum1">>)

Min(a, b) == IF a < b THEN a ELSE b

\* C10: the final a workflow run posts and every final a session holds has at
\* most 6 summary bullets, the first 6 the model returned, in order.
C10_AtMostSix ==
    /\ \A sid \in Sessions :
          (HasState(sid) /\ storage[sid]["state"].final # <<>>) =>
              LET kept == storage[sid]["state"].final[1].summaryBullets
              IN  Len(kept) <= 6 /\ kept = Bullets(Len(kept))
    /\ wf.pc = "save" =>
          LET kept == wf.final[1].summaryBullets
          IN  /\ Len(kept) = Min(Len(wf.summaryBullets), 6)
              /\ \A i \in 1..Len(kept) : kept[i] = wf.summaryBullets[i]

\* the model returned more than 6 bullets and the session holds 6
C10_Witness ==
    /\ HasState("A")
    /\ storage["A"]["state"].final # <<>>
    /\ Len(storage["A"]["state"].final[1].summaryBullets) = 6

\* does a read of the session return a final
HasFinal(sid) == GetState(sid).final # <<>>

\* C11 as stated: a session's final is absent until a finalization workflow
\* for it has completed: creating the workflow instance writes nothing, a final
\* appears in a read only by the save-final step of a run for that session,
\* and once a run has made that step (no operation issued for the session
\* since) a read of the session has a final.
C11_FinalOnceWorkflowDone ==
    /\ [](\A sid \in Sessions : lastOp[sid] = "final" => HasFinal(sid))
    /\ [][ /\ \A sid \in Sessions :
                (~HasFinal(sid) /\ HasFinal(sid)')
                    => (wf.pc = "save" /\ wf.sid = sid /\ wf'.pc = "idle")
          /\ (wf.pc = "idle" /\ wf'.pc = "read") => storage' = storage ]_vars

\* the step that follows a step of the run
NextStep(pc) ==
    CASE pc = "summary" -> "action"
      [] pc = "action" -> "email"
      [] pc = "email" -> "save"
      [] OTHER -> "idle"

\* C12 as stated: the steps of a run are failure-isolated: whatever happens
\* to the model invocation a run awaits (it fails, or its output does not
\* parse), the run goes on to the following step, and so to the write of
\* final.
C12_StepsIsolated ==
    [][ (wf.pc \in {"summary", "action", "email"} /\ wf' # wf)
            => (wf'.pc = NextStep(wf.pc) /\ wf'.sid = wf.sid) ]_vars

\* the deal memory a session holds: the stored one, the defaults without one
LastKnownDealMemory(sid) ==
    IF HasState(sid) THEN storage[sid]["state"].dealMemory ELSE DEFAULT_DEAL_MEMORY

\* C13: a chat call that ends without having saved (the reply or the
\* extraction model invocation failed) answers with status 200, the apologetic
\* reply, empty followUps and the deal memory the session holds at that
\* moment, the defaults when nothing is stored.
C13_FallbackOnFailure ==
    [][ \A c \in Slots :
            (InFlight(c) /\ calls'[c].pc = "done" /\ storage' = storage) =>
                /\ calls'[c].resp.status = 200
                /\ calls'[c].resp.reply = ApologyReply
                /\ calls'[c].resp.followUps = Arr(<<>>)
                /\ calls'[c].resp.dealMemory = LastKnownDealMemory(SessionOf(c))
      ]_vars

\* the extraction invocation of the sixth turn failed, and the fallback
\* carries the deal memory the third turn had stored
C13_Witness ==
    \E c \in Slots :
        /\ calls[c].pc = "done"
        /\ calls[c].resp.kind = "fallback"
        /\ calls[c].s.userTurnCount = 6
        /\ calls[c].reply # Undefined
        /\ calls[c].resp.dealMemory.customerName = Str(<<"Ann">>)

\* C14 as stated: every chat response of a call whose model invocations
\* returned carries a non-empty reply, whatever the model returned.
C14_ReplyNonEmpty ==
    \A c \in Slots :
        (calls[c].pc = "done" /\ calls[c].resp.kind = "ok")
            => (calls[c].resp.reply.t = "str" /\ Populated(calls[c].resp.reply))

KnownRoutes ==
    {<<"/api/chat", "POST">>, <<"/", "GET">>, <<"/api/results", "GET">>,
     <<"/api/debug", "GET">>, <<"/api/end-call", "POST">>, <<"/api/reset", "POST">>}

\* a request to a route with required fields that lacks one of them
Lacks(q) ==
    \/ /\ <<q.path, q.method>> = <<"/api/chat", "POST">>
       /\ (Falsy(q.sessionId) \/ Falsy(q.message))
    \/ /\ <<q.path, q.method>> \in
              {<<"/api/results", "GET">>, <<"/api/end-call", "POST">>,
               <<"/api/reset", "POST">>}
       /\ Falsy(q.sessionId)

C16_FailedCallLeavesState ==
    [][ \A c \in Slots :
            (/\ InFlight(c) /\ calls'[c].pc = "done" /\ storage' = storage
             /\ storage[SessionOf(c)] = calls[c].stored)
                => GetState(SessionOf(c))' = calls[c].before ]_vars

\* user, assistant, user, assistant, ...
Alternates(messages) ==
    \A i \in DOMAIN messages :
        messages[i].role = IF i % 2 = 1 THEN "user" ELSE "assistant"

\* C17 as stated: a chat call that answers normally has persisted the
\* history it loaded followed by its user message and an assistant message
\* with the reply it returns; and in every read of a session that received an
\* operation and has no request in flight the history alternates user,
\* assistant and has 2 * userTurnCount messages.
C17_TwoMessagesPerTurn ==
    /\ [](\A sid \in Sessions :
            (lastOp[sid] # "none" /\ Settled(sid)) =>
                /\ Len(GetState(sid).messages) = 2 * GetState(sid).userTurnCount
                /\ Alternates(GetState(sid).messages))
    /\ [][ \A c \in Slots :
            (InFlight(c) /\ calls'[c].pc = "done" /\ calls'[c].resp.kind = "ok") =>
                LET saved == storage'[SessionOf(c)]["state"].messages
                    n == Len(calls[c].before.messages)
                IN  /\ Len(saved) = n + 2
                    /\ SubSeq(saved, 1, n) = calls[c].before.messages
                    /\ saved[n + 1].role = "user"
                    /\ saved[n + 2] = AssistantMsg(calls'[c].resp.reply) ]_vars

\* C18: the save-final step of a run changes only final: a read of the
\* session right after it returns the messages, dealMemory, rollingSummary and
\* userTurnCount a read right before it returned, whatever the run had read at
\* its start, and the final the run posted.
C18_OnlyFinalChanges ==
    [][ (wf.pc = "save" /\ wf'.pc = "idle") =>
            LET old == GetState(wf.sid)
                new == GetState(wf.sid)'
            IN  /\ new.messages = old.messages
                /\ new.dealMemory = old.dealMemory
                /\ new.rollingSummary = old.rollingSummary
                /\ new.userTurnCount = old.userTurnCount
                /\ new.final = wf.final ]_vars

\* a run has saved its final after a chat turn that completed between its
\* read and its save, and the session holds that turn's messages
C18_Witness ==
    /\ wf.pc = "idle"
    /\ lastOp["A"] = "final"
    /\ HasFinal("A")
    /\ GetState("A").userTurnCount >= 1
    /\ wf.convo < Len(GetState("A").messages)

\* the order of a run: the read, the three invocations, the write; a run
\* whose invocation fails ends where it is
RunOrder ==
    {<<"idle", "read">>, <<"read", "summary">>, <<"summary", "action">>,
     <<"action", "email">>, <<"email", "save">>, <<"save", "idle">>,
     <<"summary", "idle">>, <<"action", "idle">>, <<"email", "idle">>}

====
